---- MODULE Spec2Model ----
(***************************************************************************)
(* Model of orb's tunnel mutation coordinator: the Route Store             *)
(* (internal/tunnel/config.go), the DNS gateway and service controller     *)
(* (internal/dns/client.go) and the coordinator itself                     *)
(* (internal/tunnel/service.go: Expose, Unexpose, Update).                 *)
(*                                                                         *)
(* Strings are modelled as sequences of fragments, so that the empty       *)
(* hostname of the catch-all rule is the empty sequence and formatting     *)
(* (HostnameFor, ServiceURL) is concatenation.                             *)
(***************************************************************************)
EXTENDS Integers, Sequences, FiniteSets, TLC

VARIABLES
    file,         \* content of the config file at ConfigManager.path
    tmp,          \* content of the sibling ".config.yml.tmp": <<>> when absent, <<c>> when present
    dns,          \* hostnames that have a CNAME record at the provider
    pc,           \* position of each invocation
    op,           \* operation each invocation runs
    args,         \* its arguments: subdomain, port, serviceType
    cfg,          \* the loaded, in-memory working copy (cfg)
    orginalCfg,   \* the backup taken at the start of the transaction (orginalCfg)
    configSaved,  \* rollback flag configSaved
    dnsAdded,     \* rollback flag dnsAdded (Expose)
    dnsRemoved,   \* rollback flag dnsRemoved (Unexpose)
    res,          \* the value the invocation returns
    eff,          \* the external calls the invocation has made, in order
    dirty,        \* a compensation of this invocation has failed
    lock,         \* holder of the flock on LockPath, 0 when free
    gor,          \* the goroutine lockWithTimeout starts: "none", "blocked", "acquired"
    before,       \* file and dns as they were when the invocation started
    last,         \* the previously returned invocation, when it was a successful Expose
    outcomes,     \* <<returned value, dirty>> of every invocation that rolled back
    dnsLog,       \* the last call of the DNS gateway made by a running invocation
    fd,           \* the file each invocation has open for writing: "none", "tmp", "target", "orphan"
    apps,         \* the Access applications at the provider, in listing order
    accLog,       \* the call of the access-policy client the invocation has made
    exposeAccess, \* the --access flag of the expose command (cmd/tunnel.go)
    crontab,      \* the text of the user's crontab
    schedules,    \* the names of the schedules in schedules.json
    cronLog       \* the call of the scheduler the invocation has made

world == <<file, tmp, dns, fd>>
local == <<pc, op, args, cfg, orginalCfg, configSaved, dnsAdded, dnsRemoved, res, eff, dirty, before>>
hist  == <<last, outcomes, dnsLog>>
lockv == <<lock, gor>>
access == <<apps, accLog, exposeAccess>>
sched == <<crontab, schedules, cronLog>>
vars  == <<world, local, hist, lockv, access, sched>>

----------------------------------------------------------------------------
(* Inputs and constants of the program *)

Procs == {1, 2}
SeqProcs == {1}

Domain == <<".", "d">>

LowerDigits == {"a", "b", "c", "d", "e", "f", "g", "h", "i", "j", "k", "l", "m",
                "n", "o", "p", "q", "r", "s", "t", "u", "v", "w", "x", "y", "z",
                "0", "1", "2", "3", "4", "5", "6", "7", "8", "9"}
Digits == {"0", "1", "2", "3", "4", "5", "6", "7", "8", "9"}

ValidServiceTypes == <<"http", "https", "tcp", "udp", "ssh", "rdp", "smb", "unix">>

Subdomains == {<<"a">>, <<"b">>, <<"-">>}
Ports == {<<"8">>, <<"9">>, <<"x">>}
ServiceTypes == {"http", "ftp"}

----------------------------------------------------------------------------
(* internal/tunnel/validation.go *)

ValidateSubdomain(s) ==
    /\ Len(s) >= 1
    /\ Len(s) <= 63
    /\ s[1] \in LowerDigits
    /\ s[Len(s)] \in LowerDigits
    /\ \A i \in 1..Len(s) : s[i] \in LowerDigits \cup {"-"}

ValidatePort(p) ==
    /\ Len(p) >= 1
    /\ Len(p) <= 5
    /\ \A i \in 1..Len(p) : p[i] \in Digits

\* every service type accepted
ValidateServiceType_AcceptAll(t) == TRUE

ValidateServiceType(t) ==
    \E i \in 1..Len(ValidServiceTypes) : ValidServiceTypes[i] = t

----------------------------------------------------------------------------
(* internal/tunnel/config.go *)

HostnameFor(subdomain) == subdomain \o Domain

\* the port left out of the target
ServiceURL_NoPort(port, serviceType) == <<serviceType, "://localhost:">>

ServiceURL(port, serviceType) == <<serviceType, "://localhost:">> \o port

IngressRule(hostname, service) == [Hostname |-> hostname, Service |-> service]

Config(tunnel, ingress) == [Tunnel |-> tunnel, CredentialsFile |-> "cred", Ingress |-> ingress]

NoConfig == [Tunnel |-> "", CredentialsFile |-> "", Ingress |-> <<>>]

CatchAll == IngressRule(<<>>, <<"http_status:404">>)

Backup(config) ==
    [config EXCEPT !.Ingress = [i \in 1..Len(config.Ingress) |-> config.Ingress[i]]]

\* a lookup that never finds the hostname
FindIngressIndex_NotFound(config, hostname) == 0

\* 0 stands for the -1 of the source: TLA+ sequences are indexed from 1
\* a hostname without a rule answered with the last rule
FindIngressIndex_Last(config, hostname) ==
    IF \E i \in 1..Len(config.Ingress) : config.Ingress[i].Hostname = hostname
    THEN CHOOSE i \in 1..Len(config.Ingress) :
            /\ config.Ingress[i].Hostname = hostname
            /\ \A j \in 1..(i - 1) : config.Ingress[j].Hostname # hostname
    ELSE Len(config.Ingress)

FindIngressIndex(config, hostname) ==
    IF \E i \in 1..Len(config.Ingress) : config.Ingress[i].Hostname = hostname
    THEN CHOOSE i \in 1..Len(config.Ingress) :
            /\ config.Ingress[i].Hostname = hostname
            /\ \A j \in 1..(i - 1) : config.Ingress[j].Hostname # hostname
    ELSE 0

\* the check of the last rule left out
EnsureCatchAllLast_NonEmpty(config) == Len(config.Ingress) # 0

EnsureCatchAllLast(config) ==
    /\ Len(config.Ingress) # 0
    /\ config.Ingress[Len(config.Ingress)].Hostname = <<>>

\* the new target written to every rule
ModifySubdomainPort_AllRules(config, subdomain, port, serviceType) ==
    LET idx == FindIngressIndex(config, HostnameFor(subdomain))
    IN  IF idx = 0
        THEN [err |-> TRUE, config |-> config]
        ELSE [err |-> FALSE,
              config |-> [config EXCEPT !.Ingress =
                  [i \in 1..Len(config.Ingress) |->
                      [config.Ingress[i] EXCEPT !.Service = ServiceURL(port, serviceType)]]]]

ModifySubdomainPort(config, subdomain, port, serviceType) ==
    LET idx == FindIngressIndex(config, HostnameFor(subdomain))
    IN  IF idx = 0
        THEN [err |-> TRUE, config |-> config]
        ELSE [err |-> FALSE,
              config |-> [config EXCEPT !.Ingress[idx].Service = ServiceURL(port, serviceType)]]

Load == file

\* the rule appended after the last element
InsertBeforeCatchAll_Append(config, rule) ==
    [config EXCEPT !.Ingress = Append(config.Ingress, rule)]

\* the rule is inserted before the last element, which EnsureCatchAllLast has checked
InsertBeforeCatchAll(config, rule) ==
    LET n == Len(config.Ingress)
        catchAll == config.Ingress[n]
    IN  [config EXCEPT !.Ingress = Append(Append(SubSeq(config.Ingress, 1, n - 1), rule), catchAll)]

\* the slice cut at idx instead of joined around it
RemoveRuleAt_Truncate(config, idx) ==
    [config EXCEPT !.Ingress = SubSeq(config.Ingress, 1, idx - 1)]

RemoveRuleAt(config, idx) ==
    [config EXCEPT !.Ingress =
        SubSeq(config.Ingress, 1, idx - 1) \o SubSeq(config.Ingress, idx + 1, Len(config.Ingress))]

Hostnames(config) ==
    {config.Ingress[i].Hostname : i \in 1..Len(config.Ingress)} \ {<<>>}

----------------------------------------------------------------------------
(* internal/dns/client.go: the provider refuses to create a record that   *)
(* exists; the client surfaces every provider error.                       *)

CreateDNSRoute(records, hostname, apiOk) ==
    IF apiOk /\ hostname \notin records
    THEN [err |-> FALSE, dns |-> records \cup {hostname}]
    ELSE [err |-> TRUE, dns |-> records]

RemoveDNSRoute(records, hostname, apiOk) ==
    IF apiOk /\ hostname \in records
    THEN [err |-> FALSE, dns |-> records \ {hostname}]
    ELSE [err |-> TRUE, dns |-> records]

NoDNSCall == [fn |-> "none", existed |-> FALSE, apiOk |-> FALSE, err |-> FALSE, changed |-> FALSE]

\* what a call of the gateway was given and what it answered: r is its result
DNSCall(fn, records, hostname, apiOk, r) ==
    [fn |-> fn, existed |-> hostname \in records, apiOk |-> apiOk,
     err |-> r.err, changed |-> r.dns # records]

\* systemctl restart of the daemon: its exit status is all the coordinator sees
RestartCloudflaredService(ok) == [err |-> ~ok]

----------------------------------------------------------------------------
(* internal/dns/client.go: the access-policy client. An Access application *)
(* is a record with its policies in listing order; the provider refuses a  *)
(* second application for a domain, and the client surfaces every provider *)
(* error. failAt names the provider call that fails, "none" when all       *)
(* answer.                                                                 *)

UserEmail == "me"

DefaultAccessLevel == "public"

\* the Access groups the account has
AccessGroups == {[Name |-> "team", ID |-> "g1"]}

AccessLevels == {"public", "private", "team", "nogroup"}

AccessHosts == {HostnameFor(<<"a">>), HostnameFor(<<"b">>)}

AppName(hostname) == <<"orb-">> \o hostname

PolicyName(hostname, suffix) == <<"orb-">> \o hostname \o <<suffix>>

AccessApp(hostname) == [Name |-> AppName(hostname), Domain |-> hostname, Policies |-> <<>>]

OwnerPolicy(hostname, userEmail) ==
    [Name |-> PolicyName(hostname, "-owner"), Precedence |-> 1,
     Include |-> [Kind |-> "email", ID |-> userEmail]]

GroupPolicy(hostname, groupID) ==
    [Name |-> PolicyName(hostname, "-group"), Precedence |-> 2,
     Include |-> [Kind |-> "group", ID |-> groupID]]

\* the loop over ListAccessGroups: the ID of the group of that name, "" when none
GroupIDByName(name) ==
    IF \E g \in AccessGroups : g.Name = name
    THEN (CHOOSE g \in AccessGroups : g.Name = name).ID
    ELSE ""

\* the loop over ListAccessApplications: the first application of that name, 0 when none
FindApp(a, hostname) ==
    IF \E i \in 1..Len(a) : a[i].Name = AppName(hostname)
    THEN CHOOSE i \in 1..Len(a) :
            /\ a[i].Name = AppName(hostname)
            /\ \A j \in 1..(i - 1) : a[j].Name # AppName(hostname)
    ELSE 0

\* the loop over ListAccessPolicies: the first policy of that name, 0 when none
FindPolicy(policies, name) ==
    IF \E i \in 1..Len(policies) : policies[i].Name = name
    THEN CHOOSE i \in 1..Len(policies) :
            /\ policies[i].Name = name
            /\ \A j \in 1..(i - 1) : policies[j].Name # name
    ELSE 0

AddPolicy(a, idx, policy) == [a EXCEPT ![idx].Policies = Append(@, policy)]

RemoveAt(seq, idx) == SubSeq(seq, 1, idx - 1) \o SubSeq(seq, idx + 1, Len(seq))

\* the group looked up is never missing
CreateAccessPolicy_NoGroupCheck(a, hostname, accessLevel, userEmail, failAt) ==
    LET a1 == Append(a, AccessApp(hostname))
        a2 == AddPolicy(a1, Len(a1), OwnerPolicy(hostname, userEmail))
    IN  IF accessLevel = "public"
        THEN [res |-> "ok", apps |-> a]
        ELSE IF failAt = "app" \/ \E i \in 1..Len(a) : a[i].Domain = hostname
        THEN [res |-> "err_create_app", apps |-> a]
        ELSE IF failAt = "owner"
        THEN [res |-> "err_owner_policy", apps |-> a1]
        ELSE IF accessLevel = "private"
        THEN [res |-> "ok", apps |-> a2]
        ELSE IF failAt = "groups"
        THEN [res |-> "err_list_groups", apps |-> a2]
        ELSE IF failAt = "group"
        THEN [res |-> "err_group_policy", apps |-> a2]
        ELSE [res |-> "ok",
              apps |-> AddPolicy(a2, Len(a2), GroupPolicy(hostname, GroupIDByName(accessLevel)))]

\* the owner policy left out for a group level
CreateAccessPolicy_NoOwner(a, hostname, accessLevel, userEmail, failAt) ==
    LET a1 == Append(a, AccessApp(hostname))
        a2 == IF accessLevel = "private"
              THEN AddPolicy(a1, Len(a1), OwnerPolicy(hostname, userEmail))
              ELSE a1
    IN  IF accessLevel = "public"
        THEN [res |-> "ok", apps |-> a]
        ELSE IF failAt = "app" \/ \E i \in 1..Len(a) : a[i].Domain = hostname
        THEN [res |-> "err_create_app", apps |-> a]
        ELSE IF failAt = "owner"
        THEN [res |-> "err_owner_policy", apps |-> a1]
        ELSE IF accessLevel = "private"
        THEN [res |-> "ok", apps |-> a2]
        ELSE IF failAt = "groups"
        THEN [res |-> "err_list_groups", apps |-> a2]
        ELSE IF GroupIDByName(accessLevel) = ""
        THEN [res |-> "err_group_not_found", apps |-> a2]
        ELSE IF failAt = "group"
        THEN [res |-> "err_group_policy", apps |-> a2]
        ELSE [res |-> "ok",
              apps |-> AddPolicy(a2, Len(a2), GroupPolicy(hostname, GroupIDByName(accessLevel)))]

CreateAccessPolicy(a, hostname, accessLevel, userEmail, failAt) ==
    LET a1 == Append(a, AccessApp(hostname))
        a2 == AddPolicy(a1, Len(a1), OwnerPolicy(hostname, userEmail))
    IN  IF accessLevel = "public"
        THEN [res |-> "ok", apps |-> a]
        ELSE IF failAt = "app" \/ \E i \in 1..Len(a) : a[i].Domain = hostname
        THEN [res |-> "err_create_app", apps |-> a]
        ELSE IF failAt = "owner"
        THEN [res |-> "err_owner_policy", apps |-> a1]
        ELSE IF accessLevel = "private"
        THEN [res |-> "ok", apps |-> a2]
        ELSE IF failAt = "groups"
        THEN [res |-> "err_list_groups", apps |-> a2]
        ELSE IF GroupIDByName(accessLevel) = ""
        THEN [res |-> "err_group_not_found", apps |-> a2]
        ELSE IF failAt = "group"
        THEN [res |-> "err_group_policy", apps |-> a2]
        ELSE [res |-> "ok",
              apps |-> AddPolicy(a2, Len(a2), GroupPolicy(hostname, GroupIDByName(accessLevel)))]

\* every lookup failure answered with "public"
GetAccessInfo_AlwaysPublic(a, hostname, failAt) ==
    LET idx == FindApp(a, hostname)
    IN  IF failAt = "apps" \/ idx = 0 \/ failAt = "policies"
        THEN "public"
        ELSE IF Len(a[idx].Policies) = 0
        THEN "protected"
        ELSE LET include == a[idx].Policies[1].Include
             IN  IF include.Kind = "email" /\ include.ID # ""
                 THEN "private"
                 ELSE IF include.Kind = "group" /\ include.ID # ""
                 THEN IF failAt # "groups" /\ \E g \in AccessGroups : g.ID = include.ID
                      THEN (CHOOSE g \in AccessGroups : g.ID = include.ID).Name
                      ELSE "group"
                 ELSE "protected"

GetAccessInfo(a, hostname, failAt) ==
    LET idx == FindApp(a, hostname)
    IN  IF failAt = "apps" \/ idx = 0
        THEN "public"
        ELSE IF failAt = "policies" \/ Len(a[idx].Policies) = 0
        THEN "protected"
        ELSE LET include == a[idx].Policies[1].Include
             IN  IF include.Kind = "email" /\ include.ID # ""
                 THEN "private"
                 ELSE IF include.Kind = "group" /\ include.ID # ""
                 THEN IF failAt # "groups" /\ \E g \in AccessGroups : g.ID = include.ID
                      THEN (CHOOSE g \in AccessGroups : g.ID = include.ID).Name
                      ELSE "group"
                 ELSE "protected"

RemoveAccessPolicy(a, hostname, failAt) ==
    LET idx == FindApp(a, hostname)
    IN  IF failAt = "apps"
        THEN [res |-> "err_list_apps", apps |-> a]
        ELSE IF idx = 0
        THEN [res |-> "ok", apps |-> a]
        ELSE IF failAt = "delete"
        THEN [res |-> "err_delete", apps |-> a]
        ELSE [res |-> "ok", apps |-> RemoveAt(a, idx)]

\* the application deleted instead of its group policy
RevokeGroupAccess_DeletesApp(a, hostname, failAt) ==
    LET idx == FindApp(a, hostname)
    IN  IF failAt = "apps"
        THEN [res |-> "err_list_apps", apps |-> a]
        ELSE IF idx = 0
        THEN [res |-> "ok", apps |-> a]
        ELSE IF failAt = "policies"
        THEN [res |-> "err_list_policies", apps |-> a]
        ELSE IF FindPolicy(a[idx].Policies, PolicyName(hostname, "-group")) = 0
        THEN [res |-> "ok", apps |-> a]
        ELSE IF failAt = "delete"
        THEN [res |-> "err_delete", apps |-> a]
        ELSE [res |-> "ok", apps |-> RemoveAt(a, idx)]

RevokeGroupAccess(a, hostname, failAt) ==
    LET idx == FindApp(a, hostname)
    IN  IF failAt = "apps"
        THEN [res |-> "err_list_apps", apps |-> a]
        ELSE IF idx = 0
        THEN [res |-> "ok", apps |-> a]
        ELSE IF failAt = "policies"
        THEN [res |-> "err_list_policies", apps |-> a]
        ELSE LET pidx == FindPolicy(a[idx].Policies, PolicyName(hostname, "-group"))
             IN  IF pidx = 0
                 THEN [res |-> "ok", apps |-> a]
                 ELSE IF failAt = "delete"
                 THEN [res |-> "err_delete", apps |-> a]
                 ELSE [res |-> "ok",
                       apps |-> [a EXCEPT ![idx].Policies = RemoveAt(@, pidx)]]

----------------------------------------------------------------------------
(* The scheduler service: schedules.json and the user's crontab. The       *)
(* crontab is a text, a sequence of fragments with "\n" between the lines. *)

SchedNames == {<<"j">>, <<"j", "2">>, <<"k">>}

Cron == "* * * * *"

Command == "c"

\* a crontab the user already has a line in
InitialCrontab == <<"MAILTO=x", "\n">>

Marker(name) == <<"# orb-schedule: ">> \o name

Entry(name, cron, command) == Marker(name) \o <<"\n", cron, " ", command, "\n">>

\* strings.Contains
Contains(text, sub) ==
    \E i \in 1..(Len(text) - Len(sub) + 1) : SubSeq(text, i, i + Len(sub) - 1) = sub

RECURSIVE Split(_)
\* strings.Split(text, "\n")
Split(text) ==
    IF \A i \in 1..Len(text) : text[i] # "\n"
    THEN <<text>>
    ELSE LET i == CHOOSE k \in 1..Len(text) :
                    text[k] = "\n" /\ \A j \in 1..(k - 1) : text[j] # "\n"
         IN  <<SubSeq(text, 1, i - 1)>> \o Split(SubSeq(text, i + 1, Len(text)))

RECURSIVE Join(_)
\* strings.Join(lines, "\n")
Join(lines) ==
    IF Len(lines) = 0
    THEN <<>>
    ELSE IF Len(lines) = 1
    THEN lines[1]
    ELSE lines[1] \o <<"\n">> \o Join(Tail(lines))

RECURSIVE SkipMarked(_, _, _)
\* the loop of removeFromCrontab: a line containing the marker and the line
\* after it are left out
SkipMarked(lines, marker, skipNext) ==
    IF Len(lines) = 0
    THEN <<>>
    ELSE IF Contains(Head(lines), marker)
    THEN SkipMarked(Tail(lines), marker, TRUE)
    ELSE IF skipNext
    THEN SkipMarked(Tail(lines), marker, FALSE)
    ELSE <<Head(lines)>> \o SkipMarked(Tail(lines), marker, FALSE)

addToCrontab(current, name, cron, command) == current \o Entry(name, cron, command)

removeFromCrontab(current, name) == Join(SkipMarked(Split(current), Marker(name), FALSE))

NoCronCall == [fn |-> "none", name |-> <<>>, res |-> "", crontab |-> <<>>, schedules |-> {}]

----------------------------------------------------------------------------
(* Initial states: a provisioned config file, the DNS records of its rules *)

Rule(s, p) == IngressRule(HostnameFor(s), ServiceURL(p, "http"))

InitialConfigs ==
    { Config("t1", <<CatchAll>>),
      Config("t1", <<Rule(<<"a">>, <<"8">>), CatchAll>>),
      Config("t1", <<Rule(<<"a">>, <<"8">>)>>),
      Config("t1", <<>>) }

NoAccessCall ==
    [fn |-> "none", hostname |-> <<>>, level |-> "", failAt |-> "none", res |-> "", apps |-> <<>>]

NoArgs == [subdomain |-> <<>>, port |-> <<>>, serviceType |-> ""]
NoSnapshot == [file |-> NoConfig, dns |-> {}]
NoCall == [op |-> "none", args |-> NoArgs, res |-> "", file |-> NoConfig]

Init ==
    /\ file \in InitialConfigs
    /\ tmp = <<>>
    /\ dns = Hostnames(file)
    /\ pc = [p \in Procs |-> "idle"]
    /\ op = [p \in Procs |-> "none"]
    /\ args = [p \in Procs |-> NoArgs]
    /\ cfg = [p \in Procs |-> NoConfig]
    /\ orginalCfg = [p \in Procs |-> NoConfig]
    /\ configSaved = [p \in Procs |-> FALSE]
    /\ dnsAdded = [p \in Procs |-> FALSE]
    /\ dnsRemoved = [p \in Procs |-> FALSE]
    /\ res = [p \in Procs |-> ""]
    /\ eff = [p \in Procs |-> <<>>]
    /\ dirty = [p \in Procs |-> FALSE]
    /\ before = [p \in Procs |-> NoSnapshot]
    /\ last = NoCall
    /\ outcomes = {}
    /\ dnsLog = NoDNSCall
    /\ fd = [p \in Procs |-> "none"]
    /\ apps = <<>>
    /\ accLog = NoAccessCall
    /\ exposeAccess = DefaultAccessLevel
    /\ crontab = InitialCrontab
    /\ schedules = {}
    /\ cronLog = NoCronCall
    /\ lock = 0
    /\ gor = [p \in Procs |-> "none"]

----------------------------------------------------------------------------
(* internal/tunnel/service.go: the coordinator, one action per step        *)

Start(p, o, a) ==
    /\ op' = [op EXCEPT ![p] = o]
    /\ args' = [args EXCEPT ![p] = a]
    /\ before' = [before EXCEPT ![p] = [file |-> file, dns |-> dns]]
    /\ eff' = [eff EXCEPT ![p] = <<>>]
    /\ dirty' = [dirty EXCEPT ![p] = FALSE]
    /\ configSaved' = [configSaved EXCEPT ![p] = FALSE]
    /\ dnsAdded' = [dnsAdded EXCEPT ![p] = FALSE]
    /\ dnsRemoved' = [dnsRemoved EXCEPT ![p] = FALSE]
    /\ UNCHANGED <<sched, access, world, hist, lockv>>

\* a return before the deferred rollback is registered
ReturnEarly(p, r) ==
    /\ pc' = [pc EXCEPT ![p] = "done"]
    /\ res' = [res EXCEPT ![p] = r]
    /\ UNCHANGED <<cfg, orginalCfg>>

\* the backup sharing the rules of the working copy instead of copying them
BeginTransaction_SharedBackup(p, loaded, working) ==
    /\ pc' = [pc EXCEPT ![p] = "save_tmp"]
    /\ res' = [res EXCEPT ![p] = ""]
    /\ orginalCfg' = [orginalCfg EXCEPT ![p] = working]
    /\ cfg' = [cfg EXCEPT ![p] = working]

\* the loaded config handed to Save instead of the modified one
BeginTransaction_SaveOriginal(p, loaded, working) ==
    /\ pc' = [pc EXCEPT ![p] = "save_tmp"]
    /\ res' = [res EXCEPT ![p] = ""]
    /\ orginalCfg' = [orginalCfg EXCEPT ![p] = Backup(loaded)]
    /\ cfg' = [cfg EXCEPT ![p] = loaded]

BeginTransaction(p, loaded, working) ==
    /\ pc' = [pc EXCEPT ![p] = "save_tmp"]
    /\ res' = [res EXCEPT ![p] = ""]
    /\ orginalCfg' = [orginalCfg EXCEPT ![p] = Backup(loaded)]
    /\ cfg' = [cfg EXCEPT ![p] = working]

Expose(p, subdomain, port, serviceType) ==
    /\ pc[p] = "idle"
    /\ Start(p, "Expose", [subdomain |-> subdomain, port |-> port, serviceType |-> serviceType])
    /\ LET host == HostnameFor(subdomain)
           svc == ServiceURL(port, serviceType)
           c == Load
           idx == FindIngressIndex(c, host)
       IN  IF ~(ValidateSubdomain(subdomain) /\ ValidatePort(port) /\ ValidateServiceType(serviceType))
           THEN ReturnEarly(p, "err_validation")
           ELSE IF ~EnsureCatchAllLast(c)
           THEN ReturnEarly(p, "err_precondition")
           ELSE IF idx # 0
           THEN IF c.Ingress[idx].Service = svc
                THEN ReturnEarly(p, "ok")
                ELSE ReturnEarly(p, "err_conflict")
           ELSE BeginTransaction(p, c, InsertBeforeCatchAll(c, IngressRule(host, svc)))

Unexpose(p, subdomain) ==
    /\ pc[p] = "idle"
    /\ Start(p, "Unexpose", [NoArgs EXCEPT !.subdomain = subdomain])
    /\ LET host == HostnameFor(subdomain)
           c == Load
           idx == FindIngressIndex(c, host)
       IN  IF ~ValidateSubdomain(subdomain)
           THEN ReturnEarly(p, "err_validation")
           ELSE IF idx = 0
           THEN ReturnEarly(p, "err_not_exposed")
           ELSE BeginTransaction(p, c, RemoveRuleAt(c, idx))

Update(p, subdomain, port, serviceType) ==
    /\ pc[p] = "idle"
    /\ Start(p, "Update", [subdomain |-> subdomain, port |-> port, serviceType |-> serviceType])
    /\ LET c == Load
           m == ModifySubdomainPort(c, subdomain, port, serviceType)
       IN  IF ~(ValidateSubdomain(subdomain) /\ ValidatePort(port) /\ ValidateServiceType(serviceType))
           THEN ReturnEarly(p, "err_validation")
           ELSE IF m.err
           THEN /\ pc' = [pc EXCEPT ![p] = "defer"]
                /\ res' = [res EXCEPT ![p] = "err_no_rule"]
                /\ orginalCfg' = [orginalCfg EXCEPT ![p] = Backup(c)]
                /\ cfg' = [cfg EXCEPT ![p] = c]
           ELSE BeginTransaction(p, c, m.config)

Did(p, e) == eff' = [eff EXCEPT ![p] = Append(eff[p], e)]

\* a return after the deferred rollback is registered: the deferred function runs next
ReturnDeferred(p, r) ==
    /\ pc' = [pc EXCEPT ![p] = "defer"]
    /\ res' = [res EXCEPT ![p] = r]

\* os.WriteFile opens the path with O_CREATE|O_TRUNC: the file is empty until the
\* write. An empty file unmarshals to the zero Config.
Truncated == NoConfig

OpenTrunc(p) ==
    /\ tmp' = <<Truncated>>
    /\ fd' = [fd EXCEPT ![p] = "tmp"]
    /\ UNCHANGED file

\* the write and close of os.WriteFile: the content goes to the file the descriptor
\* refers to, wherever a rename or remove has put it since the open
WriteClose(p, content) ==
    /\ tmp' = IF fd[p] = "tmp" THEN <<content>> ELSE tmp
    /\ file' = IF fd[p] = "target" THEN content ELSE file
    /\ fd' = [fd EXCEPT ![p] = "none"]

\* the write of os.WriteFile fails: the descriptor is closed, the file stays as it is
WriteFails(p) ==
    /\ fd' = [fd EXCEPT ![p] = "none"]
    /\ UNCHANGED <<file, tmp>>

\* os.Rename(tmp, path): the temporary file becomes the target, atomically
RenameTmp ==
    /\ file' = tmp[1]
    /\ tmp' = <<>>
    /\ fd' = [q \in Procs |-> IF fd[q] = "tmp" THEN "target"
                               ELSE IF fd[q] = "target" THEN "orphan" ELSE fd[q]]

\* os.Remove(tmp) after a failed rename
\* a failed rename that has replaced the target all the same
RemoveTmp_Clobbers ==
    /\ file' = tmp[1]
    /\ tmp' = <<>>
    /\ fd' = [q \in Procs |-> IF fd[q] = "tmp" THEN "orphan" ELSE fd[q]]

RemoveTmp ==
    /\ tmp' = <<>>
    /\ fd' = [q \in Procs |-> IF fd[q] = "tmp" THEN "orphan" ELSE fd[q]]
    /\ UNCHANGED file

\* ConfigManager.Save: os.WriteFile(tmp, out), the open
SaveTmp(p) ==
    /\ pc[p] = "save_tmp"
    /\ Did(p, "save")
    /\ \E ok \in BOOLEAN :
        IF ok
        THEN /\ OpenTrunc(p)
             /\ pc' = [pc EXCEPT ![p] = "save_write"]
             /\ UNCHANGED res
        ELSE /\ ReturnDeferred(p, "err_save")
             /\ UNCHANGED <<file, tmp, fd>>
    /\ UNCHANGED <<sched, access, dns, op, args, cfg, orginalCfg, configSaved,
                   dnsAdded, dnsRemoved, dirty, before, hist, lockv>>

\* ConfigManager.Save: os.WriteFile(tmp, out), the write
SaveWrite(p) ==
    /\ pc[p] = "save_write"
    /\ \E ok \in BOOLEAN :
        IF ok
        THEN /\ WriteClose(p, cfg[p])
             /\ pc' = [pc EXCEPT ![p] = "save_rename"]
             /\ UNCHANGED res
        ELSE /\ WriteFails(p)
             /\ ReturnDeferred(p, "err_save")
    /\ UNCHANGED <<sched, access, dns, op, args, cfg, orginalCfg, configSaved,
                   dnsAdded, dnsRemoved, eff, dirty, before, hist, lockv>>

\* ConfigManager.Save: os.Rename(tmp, path), os.Remove(tmp) on failure
SaveRename(p) ==
    /\ pc[p] = "save_rename"
    /\ \E ok \in BOOLEAN :
        IF ok /\ tmp # <<>>
        THEN /\ RenameTmp
             /\ configSaved' = [configSaved EXCEPT ![p] = TRUE]
             /\ pc' = [pc EXCEPT ![p] = IF op[p] = "Update" THEN "restart" ELSE "dns"]
             /\ UNCHANGED res
        ELSE /\ RemoveTmp
             /\ ReturnDeferred(p, "err_save")
             /\ UNCHANGED configSaved
    /\ UNCHANGED <<sched, access, dns, op, args, cfg, orginalCfg, dnsAdded, dnsRemoved,
                   eff, dirty, before, hist, lockv>>

\* Expose: s.cloudflare.CreateDNSRoute(cfg.Tunnel, host)
ExposeDNS(p) ==
    /\ pc[p] = "dns"
    /\ op[p] = "Expose"
    /\ Did(p, "dns_create")
    /\ \E apiOk \in BOOLEAN :
        LET r == CreateDNSRoute(dns, HostnameFor(args[p].subdomain), apiOk)
        IN  /\ dns' = r.dns
            /\ dnsLog' = DNSCall("create", dns, HostnameFor(args[p].subdomain), apiOk, r)
            /\ IF r.err
               THEN /\ ReturnDeferred(p, "err_dns")
                    /\ UNCHANGED dnsAdded
               ELSE /\ dnsAdded' = [dnsAdded EXCEPT ![p] = TRUE]
                    /\ pc' = [pc EXCEPT ![p] = "restart"]
                    /\ UNCHANGED res
    /\ UNCHANGED <<sched, access, file, tmp, fd, op, args, cfg, orginalCfg, configSaved,
                   dnsRemoved, dirty, before, last, outcomes, lockv>>

\* Unexpose: s.cloudflare.RemoveDNSRoute(cfg.Tunnel, host)
UnexposeDNS(p) ==
    /\ pc[p] = "dns"
    /\ op[p] = "Unexpose"
    /\ Did(p, "dns_remove")
    /\ \E apiOk \in BOOLEAN :
        LET r == RemoveDNSRoute(dns, HostnameFor(args[p].subdomain), apiOk)
        IN  /\ dns' = r.dns
            /\ dnsLog' = DNSCall("remove", dns, HostnameFor(args[p].subdomain), apiOk, r)
            /\ IF r.err
               THEN /\ ReturnDeferred(p, "err_dns")
                    /\ UNCHANGED dnsRemoved
               ELSE /\ dnsRemoved' = [dnsRemoved EXCEPT ![p] = TRUE]
                    /\ pc' = [pc EXCEPT ![p] = "restart"]
                    /\ UNCHANGED res
    /\ UNCHANGED <<sched, access, file, tmp, fd, op, args, cfg, orginalCfg, configSaved,
                   dnsAdded, dirty, before, last, outcomes, lockv>>

\* s.cloudflare.RestartCloudflaredService; on success the rollback flags are reset
\* the rollback flags left set after a successful restart
Restart_NoReset(p) ==
    /\ pc[p] = "restart"
    /\ Did(p, "restart")
    /\ \E ok \in BOOLEAN :
        IF ~RestartCloudflaredService(ok).err
           THEN ReturnDeferred(p, "ok")
           ELSE ReturnDeferred(p, "err_restart")
    /\ UNCHANGED <<sched, access, file, tmp, dns, fd, op, args, cfg, orginalCfg, dirty, before, hist, lockv,
                   configSaved, dnsAdded, dnsRemoved>>

Restart(p) ==
    /\ pc[p] = "restart"
    /\ Did(p, "restart")
    /\ \E ok \in BOOLEAN :
        IF ~RestartCloudflaredService(ok).err
           THEN /\ configSaved' = [configSaved EXCEPT ![p] = FALSE]
                /\ dnsAdded' = [dnsAdded EXCEPT ![p] = FALSE]
                /\ dnsRemoved' = [dnsRemoved EXCEPT ![p] = FALSE]
                /\ ReturnDeferred(p, "ok")
           ELSE /\ ReturnDeferred(p, "err_restart")
                /\ UNCHANGED <<configSaved, dnsAdded, dnsRemoved>>
    /\ UNCHANGED <<sched, access, file, tmp, dns, fd, op, args, cfg, orginalCfg, dirty, before, hist, lockv>>

\* the restore of the config left out of the rollback
AfterDNSRollback_Skip(p) ==
    pc' = [pc EXCEPT ![p] = "done"]

\* after the compensation of the DNS step: restore the config if it was saved
AfterDNSRollback(p) ==
    pc' = [pc EXCEPT ![p] = IF configSaved[p] THEN "restore_tmp" ELSE "done"]

\* the function deferred by Expose: nothing unless dnsAdded, else remove the DNS route
ExposeDefer(p) ==
    /\ pc[p] = "defer"
    /\ op[p] = "Expose"
    /\ IF ~dnsAdded[p]
       THEN /\ pc' = [pc EXCEPT ![p] = "done"]
            /\ UNCHANGED <<dns, eff, dirty, dnsLog>>
       ELSE /\ Did(p, "rb_dns_remove")
            /\ \E apiOk \in BOOLEAN :
                LET r == RemoveDNSRoute(dns, HostnameFor(args[p].subdomain), apiOk)
                IN  /\ dns' = r.dns
                    /\ dnsLog' = DNSCall("remove", dns, HostnameFor(args[p].subdomain), apiOk, r)
                    /\ dirty' = [dirty EXCEPT ![p] = dirty[p] \/ r.err]
            /\ AfterDNSRollback(p)
    /\ UNCHANGED <<sched, access, file, tmp, fd, op, args, cfg, orginalCfg, configSaved,
                   dnsAdded, dnsRemoved, res, before, last, outcomes, lockv>>

\* the function deferred by Unexpose: nothing unless dnsRemoved, else re-create the DNS route
UnexposeDefer(p) ==
    /\ pc[p] = "defer"
    /\ op[p] = "Unexpose"
    /\ IF ~dnsRemoved[p]
       THEN /\ pc' = [pc EXCEPT ![p] = "done"]
            /\ UNCHANGED <<dns, eff, dirty, dnsLog>>
       ELSE /\ Did(p, "rb_dns_create")
            /\ \E apiOk \in BOOLEAN :
                LET r == CreateDNSRoute(dns, HostnameFor(args[p].subdomain), apiOk)
                IN  /\ dns' = r.dns
                    /\ dnsLog' = DNSCall("create", dns, HostnameFor(args[p].subdomain), apiOk, r)
                    /\ dirty' = [dirty EXCEPT ![p] = dirty[p] \/ r.err]
            /\ AfterDNSRollback(p)
    /\ UNCHANGED <<sched, access, file, tmp, fd, op, args, cfg, orginalCfg, configSaved,
                   dnsAdded, dnsRemoved, res, before, last, outcomes, lockv>>

\* a deferred function that restores nothing
UpdateDefer_NoRestore(p) ==
    /\ pc[p] = "defer"
    /\ op[p] = "Update"
    /\ pc' = [pc EXCEPT ![p] = "done"]
    /\ UNCHANGED <<sched, access, world, op, args, cfg, orginalCfg, configSaved, dnsAdded, dnsRemoved,
                   res, eff, dirty, before, hist, lockv>>

\* the function deferred by Update: nothing unless configSaved, else restore the config
UpdateDefer(p) ==
    /\ pc[p] = "defer"
    /\ op[p] = "Update"
    /\ pc' = [pc EXCEPT ![p] = IF configSaved[p] THEN "restore_tmp" ELSE "done"]
    /\ UNCHANGED <<sched, access, world, op, args, cfg, orginalCfg, configSaved, dnsAdded, dnsRemoved,
                   res, eff, dirty, before, hist, lockv>>

\* rollback: s.config.Save(orginalCfg), the open; a failure is only printed
RestoreTmp(p) ==
    /\ pc[p] = "restore_tmp"
    /\ Did(p, "rb_save")
    /\ \E ok \in BOOLEAN :
        IF ok
        THEN /\ OpenTrunc(p)
             /\ pc' = [pc EXCEPT ![p] = "restore_write"]
             /\ UNCHANGED dirty
        ELSE /\ pc' = [pc EXCEPT ![p] = "done"]
             /\ dirty' = [dirty EXCEPT ![p] = TRUE]
             /\ UNCHANGED <<file, tmp, fd>>
    /\ UNCHANGED <<sched, access, dns, op, args, cfg, orginalCfg, configSaved,
                   dnsAdded, dnsRemoved, res, before, hist, lockv>>

\* rollback: s.config.Save(orginalCfg), the write
RestoreWrite(p) ==
    /\ pc[p] = "restore_write"
    /\ \E ok \in BOOLEAN :
        IF ok
        THEN /\ WriteClose(p, orginalCfg[p])
             /\ pc' = [pc EXCEPT ![p] = "restore_rename"]
             /\ UNCHANGED dirty
        ELSE /\ WriteFails(p)
             /\ pc' = [pc EXCEPT ![p] = "done"]
             /\ dirty' = [dirty EXCEPT ![p] = TRUE]
    /\ UNCHANGED <<sched, access, dns, op, args, cfg, orginalCfg, configSaved,
                   dnsAdded, dnsRemoved, res, eff, before, hist, lockv>>

\* rollback: s.config.Save(orginalCfg), the rename
RestoreRename(p) ==
    /\ pc[p] = "restore_rename"
    /\ pc' = [pc EXCEPT ![p] = "done"]
    /\ \E ok \in BOOLEAN :
        IF ok /\ tmp # <<>>
        THEN /\ RenameTmp
             /\ UNCHANGED dirty
        ELSE /\ RemoveTmp
             /\ dirty' = [dirty EXCEPT ![p] = TRUE]
    /\ UNCHANGED <<sched, access, dns, op, args, cfg, orginalCfg, configSaved,
                   dnsAdded, dnsRemoved, res, eff, before, hist, lockv>>

RolledBack(p) == \E i \in 1..Len(eff[p]) : eff[p][i] \in {"rb_dns_remove", "rb_dns_create", "rb_save"}

\* the invocation has returned to its caller; the next invocation may start
Return(p) ==
    /\ pc[p] = "done"
    /\ pc' = [pc EXCEPT ![p] = "idle"]
    /\ last' = IF op[p] = "Expose" /\ res[p] = "ok"
               THEN [op |-> op[p], args |-> args[p], res |-> res[p], file |-> before[p].file]
               ELSE NoCall
    /\ outcomes' = IF RolledBack(p) THEN outcomes \cup {<<res[p], dirty[p]>>} ELSE outcomes
    /\ dnsLog' = NoDNSCall
    /\ accLog' = NoAccessCall
    /\ op' = [op EXCEPT ![p] = "none"]
    /\ args' = [args EXCEPT ![p] = NoArgs]
    /\ cfg' = [cfg EXCEPT ![p] = NoConfig]
    /\ orginalCfg' = [orginalCfg EXCEPT ![p] = NoConfig]
    /\ configSaved' = [configSaved EXCEPT ![p] = FALSE]
    /\ dnsAdded' = [dnsAdded EXCEPT ![p] = FALSE]
    /\ dnsRemoved' = [dnsRemoved EXCEPT ![p] = FALSE]
    /\ res' = [res EXCEPT ![p] = ""]
    /\ eff' = [eff EXCEPT ![p] = <<>>]
    /\ dirty' = [dirty EXCEPT ![p] = FALSE]
    /\ before' = [before EXCEPT ![p] = NoSnapshot]
    /\ cronLog' = NoCronCall
    /\ UNCHANGED <<crontab, schedules, apps, exposeAccess, world, lockv>>

Host(p) == HostnameFor(args[p].subdomain)

----------------------------------------------------------------------------
(* The first command layer (cmd: runExpose, runUnexpose), which runs the   *)
(* change under withLock and calls neither DNS nor a rollback.             *)

serviceFor(port) == <<"http", "://localhost:">> \o port

\* withLock up to the first flock: LOCK_EX|LOCK_NB, and on EWOULDBLOCK lockWithTimeout,
\* whose goroutine blocks in flock(LOCK_EX)
withLock(p) ==
    IF lock = 0
    THEN /\ lock' = p
         /\ pc' = [pc EXCEPT ![p] = "cli_load"]
         /\ UNCHANGED gor
    ELSE /\ gor' = [gor EXCEPT ![p] = "blocked"]
         /\ pc' = [pc EXCEPT ![p] = "lock_wait"]
         /\ UNCHANGED lock

CliStart(p, o, a, valid) ==
    /\ pc[p] = "idle"
    /\ op' = [op EXCEPT ![p] = o]
    /\ args' = [args EXCEPT ![p] = a]
    /\ before' = [before EXCEPT ![p] = [file |-> file, dns |-> dns]]
    /\ IF valid
       THEN /\ withLock(p)
            /\ UNCHANGED res
       ELSE /\ pc' = [pc EXCEPT ![p] = "done"]
            /\ res' = [res EXCEPT ![p] = "err_validation"]
            /\ UNCHANGED lockv
    /\ UNCHANGED <<sched, access, world, cfg, orginalCfg, configSaved, dnsAdded, dnsRemoved, eff, dirty, hist>>

runExpose(p, subdomain, port) ==
    \E listening \in BOOLEAN :
        CliStart(p, "runExpose", [NoArgs EXCEPT !.subdomain = subdomain, !.port = port],
                 ValidateSubdomain(subdomain) /\ ValidatePort(port) /\ listening)

runUnexpose(p, subdomain) ==
    CliStart(p, "runUnexpose", [NoArgs EXCEPT !.subdomain = subdomain], ValidateSubdomain(subdomain))

\* the goroutine of lockWithTimeout obtains the lock and sends on done
GoroutineFlock(p) ==
    /\ gor[p] = "blocked"
    /\ lock = 0
    /\ lock' = p
    /\ gor' = [gor EXCEPT ![p] = "acquired"]
    /\ UNCHANGED <<sched, access, world, local, hist>>

\* select in lockWithTimeout receives from done: withLock goes on to fn
LockWaitDone(p) ==
    /\ pc[p] = "lock_wait"
    /\ gor[p] = "acquired"
    /\ pc' = [pc EXCEPT ![p] = "cli_load"]
    /\ gor' = [gor EXCEPT ![p] = "none"]
    /\ UNCHANGED <<sched, access, world, op, args, cfg, orginalCfg, configSaved, dnsAdded, dnsRemoved,
                   res, eff, dirty, before, hist, lock>>

\* the timer case going on to fn instead of returning
LockWaitTimeout_RunsFn(p) ==
    /\ pc[p] = "lock_wait"
    /\ pc' = [pc EXCEPT ![p] = "cli_load"]
    /\ res' = [res EXCEPT ![p] = "err_lock_timeout"]
    /\ gor' = [gor EXCEPT ![p] = "none"]
    /\ lock' = IF lock = p THEN 0 ELSE lock
    /\ UNCHANGED <<sched, access, world, op, args, cfg, orginalCfg, configSaved, dnsAdded, dnsRemoved,
                   eff, dirty, before, hist>>

\* a select without the timer case: only the goroutine's send ends the wait
LockWaitTimeout_NoTimer(p) ==
    /\ pc[p] = "lock_wait"
    /\ gor[p] = "acquired"
    /\ pc' = [pc EXCEPT ![p] = "done"]
    /\ res' = [res EXCEPT ![p] = "err_lock_timeout"]
    /\ gor' = [gor EXCEPT ![p] = "none"]
    /\ lock' = IF lock = p THEN 0 ELSE lock
    /\ UNCHANGED <<sched, access, world, op, args, cfg, orginalCfg, configSaved, dnsAdded, dnsRemoved,
                   eff, dirty, before, hist>>

\* the timer case returning with the descriptor left open and the goroutine
\* still waiting in flock
LockWaitTimeout_LeavesGoroutine(p) ==
    /\ pc[p] = "lock_wait"
    /\ pc' = [pc EXCEPT ![p] = "done"]
    /\ res' = [res EXCEPT ![p] = "err_lock_timeout"]
    /\ UNCHANGED <<sched, access, world, op, args, cfg, orginalCfg, configSaved, dnsAdded, dnsRemoved,
                   eff, dirty, before, hist, lockv>>

\* select in lockWithTimeout takes the timer: withLock returns the error, the
\* deferred f.Close() drops the descriptor and the process exits
LockWaitTimeout(p) ==
    /\ pc[p] = "lock_wait"
    /\ pc' = [pc EXCEPT ![p] = "done"]
    /\ res' = [res EXCEPT ![p] = "err_lock_timeout"]
    /\ gor' = [gor EXCEPT ![p] = "none"]
    /\ lock' = IF lock = p THEN 0 ELSE lock
    /\ UNCHANGED <<sched, access, world, op, args, cfg, orginalCfg, configSaved, dnsAdded, dnsRemoved,
                   eff, dirty, before, hist>>

\* fn returning without the deferred unlock
CliReturn_NoDefer(p, r) ==
    /\ pc' = [pc EXCEPT ![p] = "done"]
    /\ res' = [res EXCEPT ![p] = r]

\* fn has returned r: the deferred flock(LOCK_UN) is next
CliReturn(p, r) ==
    /\ pc' = [pc EXCEPT ![p] = "unlock"]
    /\ res' = [res EXCEPT ![p] = r]

\* the body of fn up to the in-memory change: loadConfig, ensureCatchAllLast, findIngressIndex
CliLoad(p) ==
    /\ pc[p] = "cli_load"
    /\ LET host == Host(p)
           c == Load
           idx == FindIngressIndex(c, host)
       IN  IF op[p] = "runExpose"
           THEN IF ~EnsureCatchAllLast(c)
                THEN CliReturn(p, "err_precondition") /\ UNCHANGED cfg
                ELSE IF idx # 0
                THEN /\ CliReturn(p, IF c.Ingress[idx].Service = serviceFor(args[p].port)
                                     THEN "ok" ELSE "err_conflict")
                     /\ UNCHANGED cfg
                ELSE /\ cfg' = [cfg EXCEPT ![p] =
                            InsertBeforeCatchAll(c, IngressRule(host, serviceFor(args[p].port)))]
                     /\ pc' = [pc EXCEPT ![p] = "cli_tmp"]
                     /\ UNCHANGED res
           ELSE IF idx = 0
                THEN CliReturn(p, "err_not_exposed") /\ UNCHANGED cfg
                ELSE /\ cfg' = [cfg EXCEPT ![p] = RemoveRuleAt(c, idx)]
                     /\ pc' = [pc EXCEPT ![p] = "cli_tmp"]
                     /\ UNCHANGED res
    /\ UNCHANGED <<sched, access, world, op, args, orginalCfg, configSaved, dnsAdded, dnsRemoved,
                   eff, dirty, before, hist, lockv>>

\* writeConfigAtomic: os.WriteFile(tmp, out), the open
CliWriteTmp(p) ==
    /\ pc[p] = "cli_tmp"
    /\ Did(p, "save")
    /\ \E ok \in BOOLEAN :
        IF ok
        THEN /\ OpenTrunc(p)
             /\ pc' = [pc EXCEPT ![p] = "cli_write"]
             /\ UNCHANGED res
        ELSE /\ CliReturn(p, "err_save")
             /\ UNCHANGED <<file, tmp, fd>>
    /\ UNCHANGED <<sched, access, dns, op, args, cfg, orginalCfg, configSaved,
                   dnsAdded, dnsRemoved, dirty, before, hist, lockv>>

\* writeConfigAtomic: os.WriteFile(tmp, out), the write
CliWrite(p) ==
    /\ pc[p] = "cli_write"
    /\ \E ok \in BOOLEAN :
        IF ok
        THEN /\ WriteClose(p, cfg[p])
             /\ pc' = [pc EXCEPT ![p] = "cli_rename"]
             /\ UNCHANGED res
        ELSE /\ WriteFails(p)
             /\ CliReturn(p, "err_save")
    /\ UNCHANGED <<sched, access, dns, op, args, cfg, orginalCfg, configSaved,
                   dnsAdded, dnsRemoved, eff, dirty, before, hist, lockv>>

\* writeConfigAtomic: os.Rename(tmp, ConfigPath), os.Remove(tmp) on failure
CliRename(p) ==
    /\ pc[p] = "cli_rename"
    /\ \E ok \in BOOLEAN :
        IF ok /\ tmp # <<>>
        THEN /\ RenameTmp
             /\ pc' = [pc EXCEPT ![p] = "cli_reload"]
             /\ UNCHANGED res
        ELSE /\ RemoveTmp
             /\ CliReturn(p, "err_save")
    /\ UNCHANGED <<sched, access, dns, op, args, cfg, orginalCfg, configSaved, dnsAdded, dnsRemoved,
                   eff, dirty, before, hist, lockv>>

\* reloadCloudflared: systemctl reload, else systemctl restart
reloadCloudflared(p) ==
    /\ pc[p] = "cli_reload"
    /\ Did(p, "restart")
    /\ \E ok \in BOOLEAN : CliReturn(p, IF ok THEN "ok" ELSE "err_restart")
    /\ UNCHANGED <<sched, access, world, op, args, cfg, orginalCfg, configSaved, dnsAdded, dnsRemoved,
                   dirty, before, hist, lockv>>

\* the deferred syscall.Flock(LOCK_UN) and f.Close() of withLock
Unlock(p) ==
    /\ pc[p] = "unlock"
    /\ lock' = IF lock = p THEN 0 ELSE lock
    /\ pc' = [pc EXCEPT ![p] = "done"]
    /\ UNCHANGED <<sched, access, world, op, args, cfg, orginalCfg, configSaved, dnsAdded, dnsRemoved,
                   res, eff, dirty, before, hist, gor>>

CliCall(p) ==
    \/ \E s \in Subdomains, pt \in Ports : runExpose(p, s, pt)
    \/ \E s \in Subdomains : runUnexpose(p, s)

CliStep(p) ==
    \/ GoroutineFlock(p)
    \/ LockWaitDone(p)
    \/ LockWaitTimeout(p)
    \/ CliLoad(p)
    \/ CliWriteTmp(p)
    \/ CliWrite(p)
    \/ CliRename(p)
    \/ reloadCloudflared(p)
    \/ Unlock(p)

Step(p) ==
    \/ SaveTmp(p)
    \/ SaveWrite(p)
    \/ SaveRename(p)
    \/ ExposeDNS(p)
    \/ UnexposeDNS(p)
    \/ Restart(p)
    \/ ExposeDefer(p)
    \/ UnexposeDefer(p)
    \/ UpdateDefer(p)
    \/ RestoreTmp(p)
    \/ RestoreWrite(p)
    \/ RestoreRename(p)

Call(p) ==
    \/ \E s \in Subdomains, pt \in Ports, t \in ServiceTypes : Expose(p, s, pt, t)
    \/ \E s \in Subdomains : Unexpose(p, s)
    \/ \E s \in Subdomains, pt \in Ports, t \in ServiceTypes : Update(p, s, pt, t)

\* one invocation at a time, each started after the previous one returned
Next == \E p \in SeqProcs : Call(p) \/ Step(p) \/ Return(p)

Spec == Init /\ [][Next]_vars

\* two invocations started side by side, as two orb processes on one host
NextConc == \E p \in Procs : Call(p) \/ Step(p) \/ CliCall(p) \/ CliStep(p)

SpecConc == Init /\ [][NextConc]_vars

\* the first command layer alone: two orb processes started side by side, each
\* running expose or unexpose under withLock
NextLock == \E p \in Procs : CliCall(p) \/ CliStep(p)

SpecLock == Init /\ [][NextLock]_vars

\* the select of lockWithTimeout always ends: time.After fires after LockTimeout.
\* Nothing is assumed of the holder of the lock, which may stop at any step.
SpecLockLive ==
    SpecLock /\ \A p \in Procs : WF_vars(LockWaitDone(p) \/ LockWaitTimeout(p))

----------------------------------------------------------------------------
(* The access-policy client called on its own, between invocations of      *)
(* Unexpose: every call is one invocation that returns at once.            *)

AccessCall(p, fn, hostname, level, failAt, r, newApps) ==
    /\ pc[p] = "idle"
    /\ pc' = [pc EXCEPT ![p] = "done"]
    /\ op' = [op EXCEPT ![p] = fn]
    /\ res' = [res EXCEPT ![p] = r]
    /\ accLog' = [fn |-> fn, hostname |-> hostname, level |-> level, failAt |-> failAt,
                  res |-> r, apps |-> apps]
    /\ apps' = newApps
    /\ UNCHANGED <<sched, exposeAccess, world, args, cfg, orginalCfg, configSaved, dnsAdded, dnsRemoved,
                   eff, dirty, before, hist, lockv>>

Grant(p) ==
    \E h \in AccessHosts, level \in AccessLevels,
       failAt \in {"none", "app", "owner", "groups", "group"} :
        LET r == CreateAccessPolicy(apps, h, level, UserEmail, failAt)
        IN  AccessCall(p, "CreateAccessPolicy", h, level, failAt, r.res, r.apps)

RevokeGroup(p) ==
    \E h \in AccessHosts, failAt \in {"none", "apps", "policies", "delete"} :
        LET r == RevokeGroupAccess(apps, h, failAt)
        IN  AccessCall(p, "RevokeGroupAccess", h, "", failAt, r.res, r.apps)

RemovePolicy(p) ==
    \E h \in AccessHosts, failAt \in {"none", "apps", "delete"} :
        LET r == RemoveAccessPolicy(apps, h, failAt)
        IN  AccessCall(p, "RemoveAccessPolicy", h, "", failAt, r.res, r.apps)

Describe(p) ==
    \E h \in AccessHosts, failAt \in {"none", "apps", "policies", "groups"} :
        AccessCall(p, "GetAccessInfo", h, "", failAt, GetAccessInfo(apps, h, failAt), apps)

UnexposeStep(p) ==
    \/ SaveTmp(p)
    \/ SaveWrite(p)
    \/ SaveRename(p)
    \/ UnexposeDNS(p)
    \/ Restart(p)
    \/ UnexposeDefer(p)
    \/ RestoreTmp(p)
    \/ RestoreWrite(p)
    \/ RestoreRename(p)

NextAccess ==
    \E p \in SeqProcs :
        \/ Grant(p)
        \/ RevokeGroup(p)
        \/ RemovePolicy(p)
        \/ Describe(p)
        \/ \E s \in Subdomains : Unexpose(p, s)
        \/ UnexposeStep(p)
        \/ Return(p)

SpecAccess == Init /\ [][NextAccess]_vars

----------------------------------------------------------------------------
(* cmd/tunnel.go: the tunnel commands. The expose command parses its       *)
(* --access flag into exposeAccess and then calls Service.Expose; the      *)
(* unexpose and update commands call Service.Unexpose and Service.Update.  *)

exposeCmdFlags(p, level) ==
    /\ pc[p] = "idle"
    /\ exposeAccess' = level
    /\ UNCHANGED <<sched, apps, accLog, world, local, hist, lockv>>

NextCmd ==
    \E p \in SeqProcs :
        \/ \E level \in AccessLevels : exposeCmdFlags(p, level)
        \/ Call(p)
        \/ Step(p)
        \/ Return(p)

SpecCmd == Init /\ [][NextCmd]_vars

----------------------------------------------------------------------------
(* The scheduler called on its own: Add and Remove of the schedule command. *)

SchedCall(p, fn, name, r, newCrontab, newSchedules) ==
    /\ pc[p] = "idle"
    /\ pc' = [pc EXCEPT ![p] = "done"]
    /\ op' = [op EXCEPT ![p] = fn]
    /\ res' = [res EXCEPT ![p] = r]
    /\ cronLog' = [fn |-> fn, name |-> name, res |-> r, crontab |-> crontab,
                   schedules |-> schedules]
    /\ crontab' = newCrontab
    /\ schedules' = newSchedules
    /\ UNCHANGED <<access, world, args, cfg, orginalCfg, configSaved, dnsAdded, dnsRemoved,
                   eff, dirty, before, hist, lockv>>

\* Service.Add: the crontab first, then schedules.json, the crontab entry taken
\* out again when the save fails
Add(p) ==
    \E name \in SchedNames \cup {<<>>}, writeOk \in BOOLEAN, saveOk \in BOOLEAN :
        LET added == addToCrontab(crontab, name, Cron, Command)
        IN  IF name = <<>>
            THEN SchedCall(p, "Add", name, "err_name", crontab, schedules)
            ELSE IF name \in schedules
            THEN SchedCall(p, "Add", name, "err_exists", crontab, schedules)
            ELSE IF ~writeOk
            THEN SchedCall(p, "Add", name, "err_crontab", crontab, schedules)
            ELSE IF ~saveOk
            THEN SchedCall(p, "Add", name, "err_save", removeFromCrontab(added, name), schedules)
            ELSE SchedCall(p, "Add", name, "ok", added, schedules \cup {name})

\* Service.Remove: the crontab first, then schedules.json
Remove(p) ==
    \E name \in SchedNames, writeOk \in BOOLEAN, saveOk \in BOOLEAN :
        IF name \notin schedules
        THEN SchedCall(p, "Remove", name, "err_not_found", crontab, schedules)
        ELSE IF ~writeOk
        THEN SchedCall(p, "Remove", name, "err_crontab", crontab, schedules)
        ELSE IF ~saveOk
        THEN SchedCall(p, "Remove", name, "err_save", removeFromCrontab(crontab, name), schedules)
        ELSE SchedCall(p, "Remove", name, "ok", removeFromCrontab(crontab, name),
                       schedules \ {name})

NextSched == \E p \in SeqProcs : Add(p) \/ Remove(p) \/ Return(p)

SpecSched == Init /\ [][NextSched]_vars

----------------------------------------------------------------------------
(* internal/tunnel/validation.go: ValidatePort called on its own with port *)
(* strings of up to PortInputLen characters.                               *)

PortInputLen == 6

PortChars == {"0", "3", "5", "6", "x"}

PortStrings == UNION {[1..n -> PortChars] : n \in 0..PortInputLen}

ValidatePortCall(p, port) ==
    /\ pc[p] = "idle"
    /\ pc' = [pc EXCEPT ![p] = "done"]
    /\ op' = [op EXCEPT ![p] = "ValidatePort"]
    /\ args' = [args EXCEPT ![p] = [NoArgs EXCEPT !.port = port]]
    /\ res' = [res EXCEPT ![p] = IF ValidatePort(port) THEN "ok" ELSE "err_validation"]
    /\ UNCHANGED <<sched, access, world, cfg, orginalCfg, configSaved, dnsAdded, dnsRemoved,
                   eff, dirty, before, hist, lockv>>

NextValidate ==
    \E p \in SeqProcs :
        \/ \E port \in PortStrings : ValidatePortCall(p, port)
        \/ Return(p)

SpecValidate == Init /\ [][NextValidate]_vars

----------------------------------------------------------------------------
(* Properties of the coordinator *)

Returned(p, o) == pc[p] = "done" /\ op[p] = o

UniqueHostnames(config) ==
    \A i, j \in 1..Len(config.Ingress) :
        (i # j /\ config.Ingress[i].Hostname # <<>>) =>
            config.Ingress[i].Hostname # config.Ingress[j].Hostname

ValidRouteSet(config) == EnsureCatchAllLast(config) /\ UniqueHostnames(config)

ValidArgs(a) ==
    ValidateSubdomain(a.subdomain) /\ ValidatePort(a.port) /\ ValidateServiceType(a.serviceType)

\* C1: when the DNS-create step of Expose fails, the RouteSet on disk at return
\* is the RouteSet before the call (the inserted rule has been removed again).
C1_ExposeDnsFailureRestoresRouteSet ==
    \A p \in Procs :
        (Returned(p, "Expose") /\ res[p] = "err_dns") => file = before[p].file

\* C4: with no invocation in progress and no compensation ever having failed,
\* a hostname has an ingress rule exactly when it has a DNS record.
C4_AllOrNothing ==
    ((\A p \in Procs : pc[p] = "idle") /\ (\A o \in outcomes : ~o[2]))
        => Hostnames(file) = dns

\* C5: a successful Expose(s, p) on a valid RouteSet R without the hostname,
\* followed by a successful Unexpose(s), leaves the RouteSet identical to R.
C5_RoundTripCase(p) ==
    /\ Returned(p, "Unexpose")
    /\ res[p] = "ok"
    /\ last.op = "Expose"
    /\ last.res = "ok"
    /\ last.args.subdomain = args[p].subdomain
    /\ ValidRouteSet(last.file)
    /\ Host(p) \notin Hostnames(last.file)

C5_RoundTrip == \A p \in Procs : C5_RoundTripCase(p) => file = last.file

C5_Witness == \E p \in Procs : C5_RoundTripCase(p) /\ Len(last.file.Ingress) > 1

\* C6: an Expose identical to the successful Expose that returned just before it
\* returns success and makes no call that writes: no save, no DNS call, no restart.
C6_RepeatCase(p) ==
    /\ Returned(p, "Expose")
    /\ last.op = "Expose"
    /\ last.res = "ok"
    /\ last.args = args[p]

C6_IdempotentExpose ==
    \A p \in Procs :
        C6_RepeatCase(p) =>
            res[p] = "ok" /\ eff[p] = <<>> /\ file = before[p].file /\ dns = before[p].dns

C6_Witness == \E p \in Procs : C6_RepeatCase(p) /\ Host(p) \notin Hostnames(last.file)

\* C7: an Expose of a hostname that the Expose before it mapped to another target
\* fails with the conflict error and makes no call: RouteSet and DNS are as before.
C7_ConflictCase(p) ==
    /\ Returned(p, "Expose")
    /\ ValidArgs(args[p])
    /\ last.op = "Expose"
    /\ last.res = "ok"
    /\ last.args.subdomain = args[p].subdomain
    /\ last.args.port # args[p].port

C7_Conflict ==
    \A p \in Procs :
        C7_ConflictCase(p) =>
            /\ res[p] = "err_conflict"
            /\ eff[p] = <<>>
            /\ file = before[p].file
            /\ dns = before[p].dns

C7_Witness == \E p \in Procs : C7_ConflictCase(p)

\* C8 as stated: when the restart step of Expose fails, the DNS route is removed
\* first and the prior RouteSet restored second, and at return the RouteSet is the
\* one before the call and the hostname has no DNS record.
C8_RestartFailed(p) == Returned(p, "Expose") /\ res[p] = "err_restart"

C8_LIFO(p) == eff[p] = <<"save", "dns_create", "restart", "rb_dns_remove", "rb_save">>

C8_Restored(p) == file = before[p].file /\ Host(p) \notin dns

C8_Original ==
    \A p \in Procs : C8_RestartFailed(p) => (C8_LIFO(p) /\ C8_Restored(p))

\* C8 amended: the compensations are attempted in LIFO order, and when both
\* succeed the RouteSet and the DNS records at return are as before the call.
C8_ExposeRestartFailureLIFO ==
    \A p \in Procs :
        C8_RestartFailed(p) => (C8_LIFO(p) /\ (~dirty[p] => C8_Restored(p)))

C8_Witness == \E p \in Procs : C8_RestartFailed(p) /\ ~dirty[p] /\ C8_Restored(p)

\* C9: an Unexpose that fails at the DNS-removal step or at the restart step, its
\* compensations succeeding, returns with the RouteSet as before the call and
\* the DNS record of the hostname in place.
C9_UnexposeFailureRestores ==
    \A p \in Procs :
        (Returned(p, "Unexpose") /\ res[p] \in {"err_dns", "err_restart"} /\ ~dirty[p])
            => (file = before[p].file /\ Host(p) \in dns)

\* C10: a rollback in which a compensation failed never returns the value that a
\* rollback whose compensations all succeeded returns.
C10_DirtyDistinct ==
    \A o1, o2 \in outcomes : (o1[2] /\ ~o2[2]) => o1[1] # o2[1]

\* C2: two Expose calls with valid arguments for different subdomains, started on
\* a valid RouteSet without their hostname, no step failing: both return success
\* and the final RouteSet has both rules and the catch-all last.
C2_StepFailures == {"err_save", "err_dns", "err_restart", "err_lock_timeout"}

C2_BothExposed ==
    (/\ \A p \in Procs :
            /\ pc[p] = "done"
            /\ op[p] \in {"Expose", "runExpose"}
            /\ res[p] # "err_validation"
            /\ ValidRouteSet(before[p].file)
            /\ Host(p) \notin Hostnames(before[p].file)
            /\ res[p] \notin C2_StepFailures
     /\ Host(1) # Host(2))
    => /\ \A p \in Procs : res[p] = "ok" /\ Host(p) \in Hostnames(file)
       /\ EnsureCatchAllLast(file)

\* C3: at most one invocation is between its load of the RouteSet and the end
\* of its last write, restart or compensation.
InWindow(p) ==
    pc[p] \in {"save_tmp", "save_write", "save_rename", "dns", "restart", "defer",
              "restore_tmp", "restore_write", "restore_rename",
              "cli_tmp", "cli_write", "cli_rename", "cli_reload"}

C3_Serialized == Cardinality({p \in Procs : InWindow(p)}) <= 1

----------------------------------------------------------------------------
(* Properties of the host lock (withLock, lockWithTimeout) *)

CliOps == {"runExpose", "runUnexpose"}

\* C11: a caller that found the lock held and timed out returns the lock-timeout
\* error without having run the guarded operation: it loaded nothing and made no
\* save and no restart, so RouteSet, DNS records and daemon are untouched by it.
C11_TimeoutRunsNothing ==
    \A p \in Procs :
        res[p] = "err_lock_timeout" =>
            /\ pc[p] = "done"
            /\ eff[p] = <<>>
            /\ cfg[p] = NoConfig
            /\ lock # p

C11_Witness ==
    \E p \in Procs :
        /\ pc[p] = "done"
        /\ res[p] = "err_lock_timeout"
        /\ lock \notin {0, p}
        /\ file # before[p].file

\* C12: every invocation that waits for the lock eventually runs its operation or
\* returns the lock-timeout error, whatever the holder of the lock does.
C12_LockWaitEnds ==
    \A p \in Procs :
        (pc[p] = "lock_wait") ~> (pc[p] = "cli_load" \/ res[p] = "err_lock_timeout")

C12_Witness ==
    \E p \in Procs :
        /\ pc[p] = "done"
        /\ res[p] = "err_lock_timeout"
        /\ \E q \in Procs : lock = q /\ q # p /\ pc[q] = "cli_load"

\* C13: an invocation that has returned, whatever it returned, does not hold the
\* lock; with no invocation running the lock is free.
C13_LockReleased ==
    /\ \A p \in Procs : pc[p] \in {"idle", "done"} => (lock # p /\ gor[p] = "none")
    /\ (\A p \in Procs : pc[p] \in {"idle", "done"}) => lock = 0

C13_Witness ==
    \E p, q \in Procs :
        /\ pc[p] = "done"
        /\ op[p] \in CliOps
        /\ res[p] \in {"err_save", "err_restart"}
        /\ pc[q] = "cli_load"
        /\ lock = q
        /\ before[q].file = file

----------------------------------------------------------------------------
(* Properties of the RouteSet, of Update and of the DNS gateway *)

\* the RouteSet is empty or its last rule has a hostname
NoCatchAllLast(config) ==
    \/ Len(config.Ingress) = 0
    \/ config.Ingress[Len(config.Ingress)].Hostname # <<>>

\* C14: a call of Expose, Unexpose or Update that started on a well-formed
\* RouteSet (non-empty, catch-all last, hostnames unique) leaves, at every step
\* and whether it succeeds or fails, a well-formed RouteSet on disk.
C14_WellFormed ==
    \A p \in Procs :
        (pc[p] # "idle" /\ ValidRouteSet(before[p].file)) => ValidRouteSet(file)

C14_Witness ==
    \E p \in Procs :
        /\ pc[p] = "done"
        /\ ValidRouteSet(before[p].file)
        /\ file # before[p].file
        /\ Len(file.Ingress) = 3

\* C15: an Expose with valid arguments on a RouteSet that is empty or does not
\* end with the catch-all returns the precondition error and makes no save, no
\* DNS call and no restart; the RouteSet is left as it was.
C15_Case(p) ==
    /\ Returned(p, "Expose")
    /\ ValidArgs(args[p])
    /\ NoCatchAllLast(before[p].file)

C15_ExposePrecondition ==
    \A p \in Procs :
        C15_Case(p) =>
            /\ res[p] = "err_precondition"
            /\ eff[p] = <<>>
            /\ file = before[p].file
            /\ dns = before[p].dns

C15_Witness == \E p \in Procs : C15_Case(p) /\ Len(before[p].file.Ingress) > 0

\* C16: an Unexpose or Update with valid arguments on a RouteSet that is empty or
\* does not end with the catch-all returns the precondition error and makes no
\* save, no DNS call and no restart.
C16_UnexposeUpdatePrecondition ==
    \A p \in Procs :
        (/\ pc[p] = "done"
         /\ op[p] \in {"Unexpose", "Update"}
         /\ res[p] # "err_validation"
         /\ NoCatchAllLast(before[p].file))
        => (res[p] = "err_precondition" /\ eff[p] = <<>>)

\* C17: at every step of an Update, successful or failed, the DNS records are
\* those before the call, the only calls made are saves of the RouteSet and the
\* restart, and the RouteSet differs from the one before the call at most in the
\* target of the rule of the given hostname.
C17_OnlyTargetChanged(p) ==
    LET o == before[p].file
    IN  /\ file.Tunnel = o.Tunnel
        /\ file.CredentialsFile = o.CredentialsFile
        /\ Len(file.Ingress) = Len(o.Ingress)
        /\ \A i \in 1..Len(o.Ingress) :
            /\ file.Ingress[i].Hostname = o.Ingress[i].Hostname
            /\ o.Ingress[i].Hostname # Host(p) => file.Ingress[i].Service = o.Ingress[i].Service

C17_UpdateFrame ==
    \A p \in Procs :
        op[p] = "Update" =>
            /\ dns = before[p].dns
            /\ dnsLog = NoDNSCall
            /\ \A i \in 1..Len(eff[p]) : eff[p][i] \in {"save", "restart", "rb_save"}
            /\ C17_OnlyTargetChanged(p)

C17_Witness ==
    \E p \in Procs :
        /\ Returned(p, "Update")
        /\ res[p] = "ok"
        /\ file # before[p].file
        /\ Len(file.Ingress) > 1

\* C18 as stated: when the restart step of Update fails, the RouteSet at return
\* is the RouteSet before the call.
C18_RestartFailed(p) == Returned(p, "Update") /\ res[p] = "err_restart"

C18_Original == \A p \in Procs : C18_RestartFailed(p) => file = before[p].file

\* C18 amended: when the restart step of Update fails, the restore of the prior
\* RouteSet is attempted, and when that save succeeds the RouteSet at return is
\* the RouteSet before the call.
C18_UpdateRestartFailureRestores ==
    \A p \in Procs :
        C18_RestartFailed(p) =>
            /\ eff[p] = <<"save", "restart", "rb_save">>
            /\ ~dirty[p] => file = before[p].file

C18_Witness ==
    \E p \in Procs :
        /\ C18_RestartFailed(p)
        /\ ~dirty[p]
        /\ file = before[p].file
        /\ cfg[p] # before[p].file

\* C19: CreateDNSRoute for a hostname that already has a record, the provider
\* answering, returns success and leaves the records as they are.
C19_CreateIdempotent ==
    (dnsLog.fn = "create" /\ dnsLog.existed /\ dnsLog.apiOk)
        => (~dnsLog.err /\ ~dnsLog.changed)

\* C20: RemoveDNSRoute for a hostname that has no record, the provider
\* answering, returns success.
C20_RemoveToleratesMissing ==
    (dnsLog.fn = "remove" /\ ~dnsLog.existed /\ dnsLog.apiOk) => ~dnsLog.err

----------------------------------------------------------------------------
(* Properties of Save under concurrency *)

\* the RouteSets a load may return: the file as an invocation found it, and the
\* RouteSets the invocations pass to Save
C21_Complete ==
    LET started == {p \in Procs : op[p] # "none"}
    IN  ({before[p].file : p \in started} \cup {cfg[p] : p \in started}
            \cup {orginalCfg[p] : p \in started}) \ {Truncated}

\* C21: at every point of every interleaving of saves and loads, two saves at
\* the same time included, a load of the target path returns the complete
\* previous RouteSet or the complete RouteSet of one save.
C21_SaveAtomic ==
    (\E p \in Procs : op[p] # "none") => Load \in C21_Complete

----------------------------------------------------------------------------
(* Properties of the access-policy client *)

\* the rules of an authorization object, in listing order: precedence and what
\* each includes
RulesOf(app) ==
    [j \in 1..Len(app.Policies) |->
        <<app.Policies[j].Precedence, app.Policies[j].Include.Kind, app.Policies[j].Include.ID>>]

ObjectsFor(a, hostname) == {i \in 1..Len(a) : a[i].Domain = hostname}

C22_Granted ==
    /\ accLog.fn = "CreateAccessPolicy"
    /\ accLog.res = "ok"
    /\ accLog.level # "public"

\* C22: after a successful grant the hostname has one authorization object; for
\* the group level "team" it holds exactly the owner rule at precedence 1 for
\* the operator's e-mail and the group rule at precedence 2 for the group's
\* identifier, for the private level exactly the owner rule.
C22_GrantRules ==
    C22_Granted =>
        /\ Cardinality(ObjectsFor(apps, accLog.hostname)) = 1
        /\ \A i \in ObjectsFor(apps, accLog.hostname) :
                RulesOf(apps[i]) =
                    IF accLog.level = "private"
                    THEN << <<1, "email", "me">> >>
                    ELSE << <<1, "email", "me">>, <<2, "group", "g1">> >>

C22_Witness ==
    /\ C22_Granted
    /\ accLog.level = "team"
    /\ \E i \in ObjectsFor(apps, accLog.hostname) : Len(apps[i].Policies) = 2

C23_Revoked == accLog.fn = "RevokeGroupAccess" /\ accLog.failAt = "none"

\* C23: a revokeGroup the provider answers returns success; the hostname's
\* authorization object loses its group rule and nothing else, the owner rule
\* stays, every other object is untouched, and without a group rule or without
\* an object nothing changes.
C23_RevokeOnlyGroupRule ==
    C23_Revoked =>
        /\ accLog.res = "ok"
        /\ Len(apps) = Len(accLog.apps)
        /\ \A i \in 1..Len(apps) :
                IF accLog.apps[i].Domain = accLog.hostname
                THEN /\ apps[i].Domain = accLog.hostname
                     /\ RulesOf(apps[i]) =
                            SelectSeq(RulesOf(accLog.apps[i]), LAMBDA r : r[1] # 2)
                ELSE apps[i] = accLog.apps[i]

C23_Witness ==
    /\ C23_Revoked
    /\ \E i \in ObjectsFor(apps, accLog.hostname) :
            /\ RulesOf(accLog.apps[i]) = << <<1, "email", "me">>, <<2, "group", "g1">> >>
            /\ RulesOf(apps[i]) = << <<1, "email", "me">> >>

\* where the precedence-2 rules are
GroupRules(a) ==
    {ij \in (1..Len(a)) \X (1..2) :
        ij[2] <= Len(a[ij[1]].Policies) /\ a[ij[1]].Policies[ij[2]].Precedence = 2}

C24_Unresolved == accLog.fn = "CreateAccessPolicy" /\ accLog.level = "nogroup"

\* C24: a grant with a group level naming no group of the account never
\* returns success and never issues a precedence-2 rule; when the object and
\* its owner rule were created and the groups were listed, the error is the
\* group-not-found error.
C24_GroupNotFound ==
    C24_Unresolved =>
        /\ accLog.res # "ok"
        /\ GroupRules(apps) = GroupRules(accLog.apps)
        /\ (accLog.failAt = "none" /\ ObjectsFor(accLog.apps, accLog.hostname) = {})
                => accLog.res = "err_group_not_found"

C24_Witness ==
    /\ C24_Unresolved
    /\ accLog.res = "err_group_not_found"
    /\ \E i \in ObjectsFor(apps, accLog.hostname) :
            RulesOf(apps[i]) = << <<1, "email", "me">> >>

\* C25: a hostname never has two authorization containers, and a grant for a
\* hostname that already has one succeeds when the provider answers and the
\* level resolves.
C25_GrantIdempotent ==
    /\ \A h \in AccessHosts : Cardinality(ObjectsFor(apps, h)) <= 1
    /\ ( /\ accLog.fn = "CreateAccessPolicy"
         /\ accLog.level \in {"private", "team"}
         /\ accLog.failAt = "none"
         /\ ObjectsFor(accLog.apps, accLog.hostname) # {} )
            => accLog.res = "ok"

C26_LookupFailed ==
    /\ accLog.fn = "GetAccessInfo"
    /\ \/ accLog.failAt = "apps"
       \/ accLog.failAt = "policies" /\ ObjectsFor(accLog.apps, accLog.hostname) # {}

\* C26 as stated: describe returns Public on every lookup failure.
C26_Original == C26_LookupFailed => accLog.res = "public"

\* C26: describe always returns a level: Public when listing the containers
\* fails, the generic "protected" when listing the rules of the hostname's
\* container fails.
C26_DescribeDefaults ==
    accLog.fn = "GetAccessInfo" =>
        /\ accLog.res \in {"public", "private", "protected", "group", "team"}
        /\ C26_LookupFailed =>
                accLog.res = IF accLog.failAt = "apps" THEN "public" ELSE "protected"

C26_Witness ==
    /\ C26_LookupFailed
    /\ accLog.failAt = "policies"
    /\ accLog.res = "protected"

\* C27: when Unexpose returns success, no authorization object for its
\* hostname exists.
C27_UnexposeRemovesAccess ==
    \A p \in Procs :
        (Returned(p, "Unexpose") /\ res[p] = "ok") => ObjectsFor(apps, Host(p)) = {}

----------------------------------------------------------------------------
(* Properties of Expose and of validation *)

C28_Case(p) ==
    /\ Returned(p, "Expose")
    /\ res[p] = "ok"
    /\ ~NoCatchAllLast(before[p].file)
    /\ \A i \in 1..Len(before[p].file.Ingress) :
            before[p].file.Ingress[i].Hostname # args[p].subdomain \o <<".", "d">>

\* C28: a successful Expose on a RouteSet R that ends with the catch-all and
\* has no rule for the hostname leaves R with the rule for the hostname and
\* serviceType://localhost:port inserted immediately before the catch-all, the
\* other rules, their order and the tunnel identifier as they were; it creates
\* one DNS record, that of the hostname, creates no access object and
\* restarts the daemon once.
C28_ExposeSuccess ==
    \A p \in Procs :
        C28_Case(p) =>
            LET R == before[p].file
                n == Len(R.Ingress)
            IN  /\ file.Tunnel = R.Tunnel
                /\ file.CredentialsFile = R.CredentialsFile
                /\ Len(file.Ingress) = n + 1
                /\ \A i \in 1..(n - 1) : file.Ingress[i] = R.Ingress[i]
                /\ file.Ingress[n] =
                        [Hostname |-> args[p].subdomain \o <<".", "d">>,
                         Service |-> <<args[p].serviceType, "://localhost:">> \o args[p].port]
                /\ file.Ingress[n + 1] = R.Ingress[n]
                /\ args[p].subdomain \o <<".", "d">> \notin before[p].dns
                /\ dns = before[p].dns \cup {args[p].subdomain \o <<".", "d">>}
                /\ eff[p] = <<"save", "dns_create", "restart">>
                /\ apps = <<>>

C28_Witness == \E p \in Procs : C28_Case(p) /\ Len(file.Ingress) = 3

C29_Invalid(p) ==
    /\ pc[p] = "done"
    /\ op[p] \in {"Expose", "Unexpose", "Update"}
    /\ \/ args[p].subdomain = <<"-">>
       \/ op[p] # "Unexpose" /\ (args[p].port = <<"x">> \/ args[p].serviceType = "ftp")

DigitValue(ch) ==
    CASE ch = "0" -> 0 [] ch = "1" -> 1 [] ch = "2" -> 2 [] ch = "3" -> 3 [] ch = "4" -> 4
      [] ch = "5" -> 5 [] ch = "6" -> 6 [] ch = "7" -> 7 [] ch = "8" -> 8 [] ch = "9" -> 9

RECURSIVE PortValue(_)
\* the integer a string of digits denotes
PortValue(port) ==
    IF Len(port) = 0
    THEN 0
    ELSE 10 * PortValue(SubSeq(port, 1, Len(port) - 1)) + DigitValue(port[Len(port)])

\* C30: ValidatePort accepts a port string only if it is a string of digits
\* that denotes an integer between 1 and 65535.
C30_PortRange ==
    \A p \in Procs :
        (Returned(p, "ValidatePort") /\ res[p] = "ok") =>
            /\ Len(args[p].port) >= 1
            /\ \A i \in 1..Len(args[p].port) : args[p].port[i] \in Digits
            /\ PortValue(args[p].port) >= 1
            /\ PortValue(args[p].port) <= 65535

----------------------------------------------------------------------------
(* Properties of the order of steps, of commit and of rollback *)

\* the steps of an invocation before its first compensation
Forward(e) == SelectSeq(e, LAMBDA x : x \in {"save", "dns_create", "grant", "restart"})

C31_Steps ==
    IF exposeAccess = "public"
    THEN <<"save", "dns_create", "restart">>
    ELSE <<"save", "dns_create", "grant", "restart">>

\* C31: the steps an Expose has made are an initial part of save, DNS create,
\* access grant (for a level other than public), restart, no compensation
\* among them, and a successful Expose has made them all.
C31_ExposeOrder ==
    \A p \in Procs :
        Returned(p, "Expose") =>
            LET f == Forward(eff[p])
            IN  /\ Len(f) <= Len(C31_Steps)
                /\ f = SubSeq(C31_Steps, 1, Len(f))
                /\ f = SubSeq(eff[p], 1, Len(f))
                /\ (res[p] = "ok" /\ eff[p] # <<>>) => f = C31_Steps

C32_SaveFailed(p) == Returned(p, "Expose") /\ res[p] = "err_save"

\* C32: an Expose whose save fails, at the write of the temporary file or at
\* the rename, returns the error having made no DNS call, no restart and no
\* compensation; the RouteSet at the target path and the DNS records are as
\* before the call.
C32_SaveFailureAborts ==
    \A p \in Procs :
        C32_SaveFailed(p) =>
            /\ eff[p] = <<"save">>
            /\ file = before[p].file
            /\ dns = before[p].dns
            /\ ~dirty[p]

C32_Witness ==
    \E p \in Procs :
        /\ C32_SaveFailed(p)
        /\ Len(cfg[p].Ingress) = Len(file.Ingress) + 1
        /\ tmp = <<>>

C33_Committed(p) ==
    /\ pc[p] = "done"
    /\ op[p] \in {"Expose", "Unexpose", "Update"}
    /\ res[p] = "ok"
    /\ eff[p] # <<>>

\* C33: when Expose, Unexpose or Update returns success after its steps, it
\* has run no compensation (no DNS removal or re-creation, no restore of the
\* RouteSet): the RouteSet on disk is the one it saved, the DNS record of an
\* Expose exists and that of an Unexpose is gone.
C33_CommitDisablesRollback ==
    \A p \in Procs :
        C33_Committed(p) =>
            /\ \A i \in 1..Len(eff[p]) :
                    eff[p][i] \in {"save", "dns_create", "dns_remove", "restart"}
            /\ ~dirty[p]
            /\ file = cfg[p]
            /\ op[p] = "Expose" => args[p].subdomain \o <<".", "d">> \in dns
            /\ op[p] = "Unexpose" => args[p].subdomain \o <<".", "d">> \notin dns

C33_Witness ==
    \E p \in Procs :
        /\ C33_Committed(p)
        /\ op[p] = "Unexpose"
        /\ eff[p] = <<"save", "dns_remove", "restart">>

\* the positions of the catch-all rules of a RouteSet
CatchAlls(config) == {i \in 1..Len(config.Ingress) : config.Ingress[i].Hostname = <<>>}

C34_NoRule(p) ==
    /\ pc[p] = "done"
    /\ op[p] \in {"Unexpose", "Update"}
    /\ args[p].subdomain \in {<<"a">>, <<"b">>}
    /\ op[p] = "Update" => (args[p].port \in {<<"8">>, <<"9">>} /\ args[p].serviceType = "http")
    /\ \A i \in 1..Len(before[p].file.Ingress) :
            before[p].file.Ingress[i].Hostname # args[p].subdomain \o <<".", "d">>

\* C34: an Unexpose or Update for a hostname that has no rule returns an error
\* having made no save, no DNS call, no restart and no compensation; and at
\* every step of an Unexpose the RouteSet on disk has as many catch-all rules
\* as before the call.
C34_NoRuleNoEffect ==
    \A p \in Procs :
        /\ C34_NoRule(p) =>
                /\ res[p] = IF op[p] = "Unexpose" THEN "err_not_exposed" ELSE "err_no_rule"
                /\ eff[p] = <<>>
                /\ ~dirty[p]
                /\ file = before[p].file
                /\ dns = before[p].dns
        /\ op[p] = "Unexpose" =>
                Cardinality(CatchAlls(file)) = Cardinality(CatchAlls(before[p].file))

C34_Witness ==
    \E p \in Procs :
        /\ C34_NoRule(p)
        /\ op[p] = "Unexpose"
        /\ args[p].subdomain = <<"b">>
        /\ Len(file.Ingress) = 2

----------------------------------------------------------------------------
(* Further properties of the access-policy client *)

\* C35: a grant that returns an error leaves the authorization objects at the
\* provider as they were before the call.
C35_FailedGrantLeavesNothing ==
    (accLog.fn = "CreateAccessPolicy" /\ accLog.res # "ok") => apps = accLog.apps

----------------------------------------------------------------------------
(* Further properties of the host lock *)

C36_TimedOut(p) == pc[p] = "done" /\ res[p] = "err_lock_timeout"

----------------------------------------------------------------------------
(* Describe after grant *)

\* C37: with every lookup answered, describe returns Public for a hostname
\* without an authorization object, Private for the object a successful
\* Private grant made (the owner rule alone) and the group name for the object
\* a successful grant of the group "team" made (owner rule and group rule).
C37_DescribeInvertsGrant ==
    (accLog.fn = "GetAccessInfo" /\ accLog.failAt = "none") =>
        /\ ObjectsFor(apps, accLog.hostname) = {} => accLog.res = "public"
        /\ \A i \in ObjectsFor(apps, accLog.hostname) :
                /\ RulesOf(apps[i]) = << <<1, "email", "me">> >> => accLog.res = "private"
                /\ RulesOf(apps[i]) = << <<1, "email", "me">>, <<2, "group", "g1">> >>
                        => accLog.res = "team"

----------------------------------------------------------------------------
(* Properties of the scheduler *)

\* C38: after a successful Remove(name) the crontab still holds the line the
\* user had in it and, for every other schedule there was, its marker line
\* followed by its command line.
C38_RemoveFrame ==
    (cronLog.fn = "Remove" /\ cronLog.res = "ok") =>
        /\ Contains(crontab, <<"MAILTO=x", "\n">>)
        /\ \A n \in cronLog.schedules \ {cronLog.name} :
                Contains(crontab,
                         <<"# orb-schedule: ">> \o n \o <<"\n", "* * * * *", " ", "c", "\n">>)

----------------------------------------------------------------------------
(* Properties of the backup *)

C39_Restored(p) ==
    /\ pc[p] = "done"
    /\ op[p] \in {"Expose", "Unexpose", "Update"}
    /\ \E i \in 1..Len(eff[p]) : eff[p][i] = "rb_save"
    /\ ~dirty[p]

\* C39: from the start of the transaction on, the backup is the RouteSet that
\* was loaded, whatever was inserted into, removed from or changed in the
\* working copy; and the RouteSet a successful restore has written is the
\* loaded one.
C39_BackupIndependent ==
    \A p \in Procs :
        /\ orginalCfg[p] # NoConfig => orginalCfg[p] = before[p].file
        /\ C39_Restored(p) => file = before[p].file

C39_Witness ==
    \E p \in Procs :
        /\ C39_Restored(p)
        /\ op[p] = "Unexpose"
        /\ cfg[p] # orginalCfg[p]
        /\ file = orginalCfg[p]

====
